---- MODULE Spec2Model ----
(***************************************************************************)
(* r_snack: a terminal snake game (src/src/lib.rs, src/src/main.rs).       *)
(* The model follows one process run: main -> Game::new -> Game::run ->    *)
(* Game::poll -> end of main (Drop for Game).  Behaviours start either     *)
(* right after Game::new or between two ticks of a long session in which   *)
(* the snake has nearly filled the board.                                   *)
(***************************************************************************)
EXTENDS Integers, Sequences, FiniteSets, TLC

(* ----------------------------- bounds ---------------------------------- *)
\* Number of ticks (loop iterations of poll without a pending event) explored.
MaxTicks == 3
\* rand's index is drawn among the Empty cells at most this many steps from
\* the head, plus the first and the last Empty cell.
FoodRadius == 1
\* Number of interior cells the snake of a late session has not yet filled.
LateFree == 2
\* A write to the terminal can fail in render_all and in the render pass of the
\* first MaxIoFailTick ticks.
MaxIoFailTick == 1

(* ------------------------ program constants ---------------------------- *)
\* terminal::size() is at least 60 x 20 (Game::new refuses anything smaller);
\* the model takes the smallest terminal.
Width == 60
Height == 20
Speed == 80

CellType == {"Wall", "SnackHead", "SnackBody", "Food", "Empty"}
Direction == {"Left", "Right", "Up", "Down"}

\* KeyCode values the model feeds to the loop: the four steering letters, one
\* other letter, and Esc.
KeyCodes == {"a", "s", "d", "w", "x", "Esc"}
Steering == {"a", "s", "d", "w"}
\* crossterm events the model feeds to the loop: the release of every key, the
\* press of a steering key and of Esc, and one event that is not a key event.
Events == [tag : {"Key"}, code : KeyCodes, kind : {"Release"}]
            \cup [tag : {"Key"}, code : {"w", "Esc"}, kind : {"Press"}]
            \cup {[tag |-> "Resize", code |-> "x", kind |-> "Press"]}

VARIABLES
    game,       \* the Game struct: writer, cells, snack, score, speed
    tmp_key,    \* poll's local tmp_key (a KeyEvent)
    pc,         \* position of the process: new, built, poll, returned, exited
    result,     \* what run() returned / how the process ended
    raw_mode,   \* calls made to enable_raw_mode / disable_raw_mode
    ticks       \* number of ticks taken so far

vars == <<game, tmp_key, pc, result, raw_mode, ticks>>

Xs == 0 .. (Width - 1)
Ys == 0 .. (Height - 1)

Range(s) == {s[i] : i \in 1 .. Len(s)}

(* ------------------------------ Cell ----------------------------------- *)
\* render as it would be if the flag were not cleared after the draw
render_keeps_flag(c) == c

\* Cell::render: queue the glyph of the cell, clear the changed flag.
render(c) == [c EXCEPT !.changed_flag = FALSE]

\* set_type as it would be if it did not mark the cell as changed
set_type_no_flag(c, t) == [c EXCEPT !.cell_type = t]

\* Cell::set_type
set_type(c, t) == [c EXCEPT !.changed_flag = TRUE, !.cell_type = t]

(* ---------------------------- Game::new -------------------------------- *)
\* A Cell's x and y are its own indexes in cells (cells[i][j] is built with
\* x: i, y: j) and are never assigned again: the model reads them off the
\* index and keeps the two fields that change.
NewCells ==
    [i \in Xs |-> [j \in Ys |->
        [changed_flag |-> FALSE, cell_type |-> "Empty"]]]

NewSnack ==
    [direction |-> "Right",
     head |-> <<9, 7>>,
     bodys |-> << <<8, 7>>, <<8, 8>>, <<7, 8>>, <<7, 9>>, <<7, 10>>,
                  <<8, 10>>, <<8, 11>> >>]

\* What Cell::render prints for a cell of type t: character and foreground.
cell_style_content(t) ==
    CASE t = "Wall" -> "block_blue"
      [] t = "SnackHead" -> "hash_green"
      [] t = "SnackBody" -> "hash_yellow"
      [] t = "Food" -> "dollar_red_blink"
      [] t = "Empty" -> "block_black"

\* The writer, as the commands executed on it: how often the alternate screen
\* was entered and left, how many cells the last render pass drew, whether a
\* write on it has failed, and for every cell position what Cell::render last
\* printed there and flushed.  (The title and the score line are printed by
\* commands of their own on rows 0 and Height - 1; they are not cell draws.)
NewWriter ==
    [EnterAlternateScreen |-> 0, LeaveAlternateScreen |-> 0, drawn |-> 0,
     failed |-> FALSE,
     screen |-> [x \in Xs |-> [y \in Ys |-> "blank"]]]

NewGame ==
    [writer |-> NewWriter, cells |-> NewCells, snack |-> NewSnack,
     score |-> 0, speed |-> Speed]

\* poll's initial tmp_key: 'd' released
InitialKey == [code |-> "d", kind |-> "Release"]

(* ------------------------- Game::generage_food ------------------------- *)
\* The cells in iteration order of self.cells.iter().flat_map(column.iter()).
CellOrder == [i \in 1 .. (Width * Height) |-> <<(i - 1) \div Height, (i - 1) % Height>>]

\* empty_cells as it would be if the filter only excluded the walls
empty_cells_not_wall(self) ==
    SelectSeq(CellOrder, LAMBDA p : self.cells[p[1]][p[2]].cell_type # "Wall")

empty_cells(self) ==
    SelectSeq(CellOrder, LAMBDA p : self.cells[p[1]][p[2]].cell_type = "Empty")

Abs(n) == IF n < 0 THEN -n ELSE n

\* The values of rand's gen_range(0..len) the model explores.
FoodIndexes(self) ==
    LET e == empty_cells(self)
        h == self.snack.head
    IN  {i \in 0 .. (Len(e) - 1) :
            \/ i = 0
            \/ i = Len(e) - 1
            \/ Abs(e[i + 1][1] - h[1]) + Abs(e[i + 1][2] - h[2]) <= FoodRadius}

LeaveScreen(self) ==
    [self EXCEPT !.writer.LeaveAlternateScreen = @ + 1]

\* generage_food as it would be if the no-space path left the screen alone
generage_food_no_leave(self, index) ==
    LET e == empty_cells(self)
    IN  IF Len(e) = 0
        THEN [self |-> self, res |-> "Err_nospace"]
        ELSE LET p == e[index + 1]
             IN  [self |-> [self EXCEPT !.cells[p[1]][p[2]] = set_type(@, "Food")],
                  res |-> "Ok"]

\* index is the value rand returned; it is not used when there is no Empty cell.
generage_food(self, index) ==
    LET e == empty_cells(self)
    IN  IF Len(e) = 0
        THEN [self |-> LeaveScreen(self), res |-> "Err_nospace"]
        ELSE LET p == e[index + 1]
             IN  [self |-> [self EXCEPT !.cells[p[1]][p[2]] = set_type(@, "Food")],
                  res |-> "Ok"]

(* ------------------------- Game::build_default ------------------------- *)
\* build_default up to the food: enter the alternate screen, type the border
\* ring Wall, the head SnackHead and the body SnackBody (no flag is set).
BuildScene(self) ==
    LET w1 == [self EXCEPT !.writer.EnterAlternateScreen = @ + 1]
        width == Width
        height == Height
        walls == [x \in Xs |-> [y \in Ys |->
                    IF x = 0 \/ y = 0 \/ x = width - 1 \/ y = height - 1
                    THEN [w1.cells[x][y] EXCEPT !.cell_type = "Wall"]
                    ELSE w1.cells[x][y]]]
        snack == [x \in Xs |-> [y \in Ys |->
                    IF <<x, y>> \in Range(w1.snack.bodys)
                    THEN [walls[x][y] EXCEPT !.cell_type = "SnackBody"]
                    ELSE IF <<x, y>> = w1.snack.head
                    THEN [walls[x][y] EXCEPT !.cell_type = "SnackHead"]
                    ELSE walls[x][y]]]
    IN  [w1 EXCEPT !.cells = snack]

\* generage_food().unwrap(): an Err panics.
build_default(self, index) ==
    LET r == generage_food(BuildScene(self), index)
    IN  IF r.res = "Ok" THEN r ELSE [self |-> r.self, res |-> "panic"]

(* --------------------------- rendering --------------------------------- *)
\* What a render pass meets on the writer: every write succeeds, the first
\* cell draw fails, or every draw is queued and the flush fails.
IoOutcomes == {"ok", "draw_fails", "flush_fails"}

\* the screen after the cells in ps have been drawn and flushed
Drawn(self, ps) ==
    [x \in Xs |-> [y \in Ys |->
        IF <<x, y>> \in ps
        THEN cell_style_content(self.cells[x][y].cell_type)
        ELSE self.writer.screen[x][y]]]

\* render_all: c.render(...)? for every cell, then flush()?
render_all(self, io) ==
    IF io = "draw_fails"
    THEN [self |-> [self EXCEPT !.writer.failed = TRUE], res |-> "Err_io"]
    ELSE LET queued == [self EXCEPT
                 !.cells = [x \in Xs |-> [y \in Ys |-> render(self.cells[x][y])]],
                 !.writer.drawn = Width * Height]
         IN  IF io = "flush_fails"
             THEN [self |-> [queued EXCEPT !.writer.failed = TRUE], res |-> "Err_io"]
             ELSE [self |-> [queued EXCEPT !.writer.screen = Drawn(self, Xs \X Ys)],
                   res |-> "Ok"]

\* render_only_updated: cell.render(...).unwrap() for every cell whose
\* changed_flag is set, then flush()?
render_only_updated(self, io) ==
    LET dirty == {p \in Xs \X Ys : self.cells[p[1]][p[2]].changed_flag}
        queued == [self EXCEPT
            !.cells = [x \in Xs |-> [y \in Ys |->
                         IF self.cells[x][y].changed_flag
                         THEN render(self.cells[x][y])
                         ELSE self.cells[x][y]]],
            !.writer.drawn = Cardinality(dirty)]
    IN  IF io = "draw_fails" /\ dirty # {}
        THEN [self |-> [self EXCEPT !.writer.failed = TRUE], res |-> "panic"]
        ELSE IF io = "flush_fails"
        THEN [self |-> [queued EXCEPT !.writer.failed = TRUE], res |-> "Err_io"]
        ELSE [self |-> [queued EXCEPT !.writer.screen = Drawn(self, dirty)],
              res |-> "Ok"]

(* --------------------------- Game::turn_around ------------------------- *)
\* turn_around as it would be if only a repeated heading were rejected
turn_around_any_change(self, dir) ==
    IF self.snack.direction # dir
    THEN [self EXCEPT !.snack.direction = dir]
    ELSE self

turn_around(self, dir) ==
    IF <<self.snack.direction, dir>> \in
          { <<"Left", "Up">>, <<"Left", "Down">>,
            <<"Right", "Up">>, <<"Right", "Down">>,
            <<"Up", "Left">>, <<"Up", "Right">>,
            <<"Down", "Left">>, <<"Down", "Right">> }
    THEN [self EXCEPT !.snack.direction = dir]
    ELSE self

\* the match on tmp_key.code as it would be if it assigned the heading itself
KeyTurn_unfiltered(self, key) ==
    IF key.code = "Esc" THEN self
    ELSE CASE key.code \in {"a", "A"} -> [self EXCEPT !.snack.direction = "Left"]
           [] key.code \in {"s", "S"} -> [self EXCEPT !.snack.direction = "Down"]
           [] key.code \in {"d", "D"} -> [self EXCEPT !.snack.direction = "Right"]
           [] key.code \in {"w", "W"} -> [self EXCEPT !.snack.direction = "Up"]
           [] OTHER -> self

\* poll, the match on tmp_key.code (a KeyCode::Char steers, anything else does not)
KeyTurn(self, key) ==
    IF key.code = "Esc" THEN self
    ELSE CASE key.code \in {"a", "A"} -> turn_around(self, "Left")
           [] key.code \in {"s", "S"} -> turn_around(self, "Down")
           [] key.code \in {"d", "D"} -> turn_around(self, "Right")
           [] key.code \in {"w", "W"} -> turn_around(self, "Up")
           [] OTHER -> self

(* ------------------------------ Game::go ------------------------------- *)
\* go as it would be if the popped tail cell were not retyped
go_tail_stays(self, x, y) ==
    LET h == self.snack.head
        s1 == [self EXCEPT !.snack.bodys = <<h>> \o @,
                           !.cells[h[1]][h[2]] = set_type(@, "SnackBody")]
        s2 == [s1 EXCEPT !.snack.head = <<x, y>>,
                         !.cells[x][y] = set_type(@, "SnackHead")]
    IN  IF Len(s2.snack.bodys) > 0
        THEN [s2 EXCEPT !.snack.bodys = SubSeq(@, 1, Len(@) - 1)]
        ELSE s2

\* go as it would be if the tail were never popped
go_no_pop(self, x, y) ==
    LET h == self.snack.head
        s1 == [self EXCEPT !.snack.bodys = <<h>> \o @,
                           !.cells[h[1]][h[2]] = set_type(@, "SnackBody")]
    IN  [s1 EXCEPT !.snack.head = <<x, y>>,
                   !.cells[x][y] = set_type(@, "SnackHead")]

\* go as it would be if the body were popped at its front
go_pop_front(self, x, y) ==
    LET h == self.snack.head
        s1 == [self EXCEPT !.snack.bodys = <<h>> \o @,
                           !.cells[h[1]][h[2]] = set_type(@, "SnackBody")]
        s2 == [s1 EXCEPT !.snack.head = <<x, y>>,
                         !.cells[x][y] = set_type(@, "SnackHead")]
        t == s2.snack.bodys[1]
    IN  [s2 EXCEPT !.snack.bodys = Tail(@),
                   !.cells[t[1]][t[2]] = set_type(@, "Empty")]

\* go as it would be if the cell the head leaves kept its type
go_head_keeps_type(self, x, y) ==
    LET h == self.snack.head
        s1 == [self EXCEPT !.snack.bodys = <<h>> \o @]
        s2 == [s1 EXCEPT !.snack.head = <<x, y>>,
                         !.cells[x][y] = set_type(@, "SnackHead")]
        n == Len(s2.snack.bodys)
        t == s2.snack.bodys[n]
    IN  [s2 EXCEPT !.snack.bodys = SubSeq(@, 1, n - 1),
                   !.cells[t[1]][t[2]] = set_type(@, "Empty")]

go(self, x, y) ==
    LET h == self.snack.head
        s1 == [self EXCEPT !.snack.bodys = <<h>> \o @,
                           !.cells[h[1]][h[2]] = set_type(@, "SnackBody")]
        s2 == [s1 EXCEPT !.snack.head = <<x, y>>,
                         !.cells[x][y] = set_type(@, "SnackHead")]
    IN  IF Len(s2.snack.bodys) > 0
        THEN LET n == Len(s2.snack.bodys)
                 t == s2.snack.bodys[n]
             IN  [s2 EXCEPT !.snack.bodys = SubSeq(@, 1, n - 1),
                            !.cells[t[1]][t[2]] = set_type(@, "Empty")]
        ELSE s2

(* ----------------------- Game::collision_detection --------------------- *)
\* The cell lookup panics when the index is past the end of a Vec.
collision_detection(self) ==
    LET h == self.snack.head
        d == self.snack.direction
        n == CASE d = "Left" -> <<h[1] - 1, h[2]>>
               [] d = "Right" -> <<h[1] + 1, h[2]>>
               [] d = "Up" -> <<h[1], h[2] - 1>>
               [] d = "Down" -> <<h[1], h[2] + 1>>
    IN  IF n[1] < 0 \/ n[2] < 0
        THEN [cell_type |-> "Wall", pos |-> <<0, 0>>]
        ELSE IF n[1] >= Width \/ n[2] >= Height
        THEN [cell_type |-> "IndexPanic", pos |-> n]
        ELSE [cell_type |-> self.cells[n[1]][n[2]].cell_type, pos |-> n]

(* ---------------------------- Game::eat_food --------------------------- *)
\* eat_food as it would be if it pushed the new coordinate onto the body
eat_food_push_new(self, x, y, index) ==
    LET r == generage_food(self, index)
    IN  IF r.res # "Ok" THEN r
        ELSE LET h == r.self.snack.head
                 s1 == [r.self EXCEPT !.snack.bodys = << <<x, y>> >> \o @,
                                      !.cells[h[1]][h[2]] = set_type(@, "SnackBody")]
                 s2 == [s1 EXCEPT !.snack.head = <<x, y>>,
                                  !.cells[x][y] = set_type(@, "SnackHead"),
                                  !.score = @ + 1]
             IN  [self |-> s2, res |-> "Ok"]

\* eat_food as it would be if the head advanced before the food was replaced
eat_food_move_first(self, x, y, index) ==
    LET h == self.snack.head
        s1 == [self EXCEPT !.snack.bodys = <<h>> \o @,
                           !.cells[h[1]][h[2]] = set_type(@, "SnackBody")]
        s2 == [s1 EXCEPT !.snack.head = <<x, y>>,
                         !.cells[x][y] = set_type(@, "SnackHead"),
                         !.score = @ + 1]
    IN  generage_food(s2, index)

\* eat_food as it would be if the eaten food were not replaced
eat_food_no_spawn(self, x, y, index) ==
    LET h == self.snack.head
        s1 == [self EXCEPT !.snack.bodys = <<h>> \o @,
                           !.cells[h[1]][h[2]] = set_type(@, "SnackBody")]
        s2 == [s1 EXCEPT !.snack.head = <<x, y>>,
                         !.cells[x][y] = set_type(@, "SnackHead"),
                         !.score = @ + 1]
    IN  [self |-> s2, res |-> "Ok"]

eat_food(self, x, y, index) ==
    LET r == generage_food(self, index)
    IN  IF r.res # "Ok" THEN r
        ELSE LET h == r.self.snack.head
                 s1 == [r.self EXCEPT !.snack.bodys = <<h>> \o @,
                                      !.cells[h[1]][h[2]] = set_type(@, "SnackBody")]
                 s2 == [s1 EXCEPT !.snack.head = <<x, y>>,
                                  !.cells[x][y] = set_type(@, "SnackHead"),
                                  !.score = @ + 1]
             IN  [self |-> s2, res |-> "Ok"]

(* ----------------------------- Init ------------------------------------ *)
\* main after Game::new: nothing of run() has happened yet.
NewSession ==
    /\ game = NewGame
    /\ tmp_key = InitialKey
    /\ pc = "new"
    /\ result = "running"
    /\ raw_mode = [enabled |-> 0, disabled |-> 0]
    /\ ticks = 0

\* A Hamiltonian cycle of the interior: along row 1 from (1,1) to (Width-2,1),
\* then column by column back to column 1, alternately down and up rows
\* 2..Height-2, and up column 1 to (1,2), next to (1,1).  A snake that follows
\* it never meets a wall or itself and eats every food on its way.
Interior == (Width - 2) * (Height - 2)
CyclePath ==
    [k \in 1 .. Interior |->
        IF k <= Width - 2 THEN <<k, 1>>
        ELSE LET k2 == k - (Width - 2) - 1
                 c == k2 \div (Height - 3)
                 r == k2 % (Height - 3)
             IN  <<(Width - 2) - c,
                   IF c % 2 = 0 THEN 2 + r ELSE (Height - 2) - r>>]

\* Where the head of a late session is on the cycle: going down the last
\* column, one row above its bottom, the right wall beside it.
LateHead == (Width - 2) + (Height - 4)

\* The snake of a late session: LateFree cells of the cycle are left in front
\* of the head, around the turn into the next column, and the body fills the
\* rest of the cycle; with two cells left the tail lies beside the head.
LateSnack ==
    [direction |-> "Down",
     head |-> CyclePath[LateHead],
     bodys |-> [i \in 1 .. (Interior - LateFree - 1) |->
                  CyclePath[((LateHead - i - 1) % Interior) + 1]]]

LateFreeCells == {CyclePath[k] : k \in (LateHead + 1) .. (LateHead + LateFree)}

LateCells(food) ==
    [x \in Xs |-> [y \in Ys |->
        [changed_flag |-> FALSE,
         cell_type |->
            IF x = 0 \/ y = 0 \/ x = Width - 1 \/ y = Height - 1 THEN "Wall"
            ELSE IF <<x, y>> = LateSnack.head THEN "SnackHead"
            ELSE IF <<x, y>> = food THEN "Food"
            ELSE IF <<x, y>> \in LateFreeCells THEN "Empty"
            ELSE "SnackBody"]]]

\* poll between two ticks of a session in which the snake has eaten its way
\* around CyclePath until LateFree cells are left: one of them is the food, the
\* last frame is drawn, any key may have been released last.
LateSession ==
    /\ \E food \in LateFreeCells :
          game = [writer |-> [EnterAlternateScreen |-> 1, LeaveAlternateScreen |-> 0,
                              drawn |-> 3, failed |-> FALSE,
                              screen |-> [x \in Xs |-> [y \in Ys |->
                                  cell_style_content(LateCells(food)[x][y].cell_type)]]],
                  cells |-> LateCells(food),
                  snack |-> LateSnack,
                  score |-> Len(LateSnack.bodys) - Len(NewSnack.bodys),
                  speed |-> Speed]
    /\ tmp_key \in [code : KeyCodes \ {"Esc"}, kind : {"Release"}]
    /\ pc = "poll"
    /\ result = "running"
    /\ raw_mode = [enabled |-> 1, disabled |-> 0]
    /\ ticks = 0

Init == NewSession \/ LateSession

(* ------------------------------ run ------------------------------------ *)
\* run(): enable_raw_mode, build_default
RunBuild ==
    /\ pc = "new"
    /\ \E index \in FoodIndexes(BuildScene(game)) :
          LET r == build_default(game, index)
          IN  /\ game' = r.self
              /\ IF r.res = "Ok"
                 THEN pc' = "built" /\ result' = result
                 ELSE pc' = "returned" /\ result' = r.res
    /\ raw_mode' = [raw_mode EXCEPT !.enabled = @ + 1]
    /\ UNCHANGED <<tmp_key, ticks>>

\* run(): render_all?, title, print_score; poll(): sleep, tmp_key = 'd' released
RunRenderAll ==
    /\ pc = "built"
    /\ \E io \in IoOutcomes :
          LET r == render_all(game, io)
          IN  /\ game' = r.self
              /\ IF r.res = "Ok"
                 THEN pc' = "poll" /\ result' = result
                 ELSE pc' = "returned" /\ result' = r.res
    /\ tmp_key' = InitialKey
    /\ UNCHANGED <<raw_mode, ticks>>

(* ------------------------------ poll ----------------------------------- *)
\* tmp_key after an event has been read
KeyAfter(key, ev) ==
    IF ev.tag = "Key" /\ ev.kind = "Release"
    THEN [code |-> ev.code, kind |-> ev.kind]
    ELSE key

\* the event arm as it would be if Esc were looked at only for a released key
ReadEvent_esc_release_only(self, key, ev) ==
    IF ev.tag = "Key" /\ ev.kind = "Release" /\ ev.code = "Esc"
    THEN [self |-> LeaveScreen(self), key |-> KeyAfter(key, ev), res |-> "Quit"]
    ELSE [self |-> self, key |-> KeyAfter(key, ev), res |-> "Continue"]

\* The event arm of the loop: a released key is buffered; Esc, pressed or
\* released, leaves the alternate screen and breaks out of the loop.
ReadEvent(self, key, ev) ==
    IF ev.tag = "Key" /\ ev.code = "Esc"
    THEN [self |-> LeaveScreen(self), key |-> KeyAfter(key, ev), res |-> "Quit"]
    ELSE [self |-> self, key |-> KeyAfter(key, ev), res |-> "Continue"]

\* One loop iteration with an event pending: read it.  tmp_key goes out of
\* scope when poll returns.
PollEvent ==
    /\ pc = "poll"
    /\ \E ev \in Events :
          LET r == ReadEvent(game, tmp_key, ev)
          IN  /\ game' = r.self
              /\ IF r.res = "Quit"
                 THEN pc' = "returned" /\ result' = "Ok" /\ tmp_key' = InitialKey
                 ELSE pc' = pc /\ result' = result /\ tmp_key' = r.key
    /\ UNCHANGED <<raw_mode, ticks>>

\* Tick as it would be if a Wall ahead were handled like an Empty cell
Tick_wall_as_empty(self, key, index, io) ==
    LET s1 == KeyTurn(self, key)
        cd == collision_detection(s1)
    IN  CASE cd.cell_type = "SnackHead" ->
                render_only_updated(s1, io)
          [] cd.cell_type = "SnackBody" ->
                [self |-> LeaveScreen(s1), res |-> "Err_self"]
          [] cd.cell_type = "Food" ->
                LET r == eat_food(s1, cd.pos[1], cd.pos[2], index)
                IN  IF r.res = "Ok"
                    THEN render_only_updated(r.self, io)
                    ELSE r
          [] cd.cell_type \in {"Empty", "Wall"} ->
                render_only_updated(go(s1, cd.pos[1], cd.pos[2]), io)
          [] cd.cell_type = "IndexPanic" ->
                [self |-> s1, res |-> "panic"]

\* Tick as it would be if the tail cell, which a normal move vacates, could
\* be stepped onto
Tick_tail_is_free(self, key, index, io) ==
    LET s1 == KeyTurn(self, key)
        cd == collision_detection(s1)
        tail == s1.snack.bodys[Len(s1.snack.bodys)]
    IN  CASE cd.cell_type = "Wall" ->
                [self |-> LeaveScreen(s1), res |-> "Err_wall"]
          [] cd.cell_type = "SnackHead" ->
                render_only_updated(s1, io)
          [] cd.cell_type = "SnackBody" /\ cd.pos # tail ->
                [self |-> LeaveScreen(s1), res |-> "Err_self"]
          [] cd.cell_type = "Food" ->
                LET r == eat_food(s1, cd.pos[1], cd.pos[2], index)
                IN  IF r.res = "Ok"
                    THEN render_only_updated(r.self, io)
                    ELSE r
          [] cd.cell_type = "Empty" \/ cd.pos = tail ->
                render_only_updated(go(s1, cd.pos[1], cd.pos[2]), io)
          [] cd.cell_type = "IndexPanic" ->
                [self |-> s1, res |-> "panic"]

\* The outcome of one tick: steer by tmp_key, detect, move or eat or die, render.
\* index is rand's value, used only by a growth move; io is what the render
\* pass meets on the writer.
Tick(self, key, index, io) ==
    LET s1 == KeyTurn(self, key)
        cd == collision_detection(s1)
    IN  CASE cd.cell_type = "Wall" ->
                [self |-> LeaveScreen(s1), res |-> "Err_wall"]
          [] cd.cell_type = "SnackHead" ->
                render_only_updated(s1, io)
          [] cd.cell_type = "SnackBody" ->
                [self |-> LeaveScreen(s1), res |-> "Err_self"]
          [] cd.cell_type = "Food" ->
                LET r == eat_food(s1, cd.pos[1], cd.pos[2], index)
                IN  IF r.res = "Ok"
                    THEN render_only_updated(r.self, io)
                    ELSE r
          [] cd.cell_type = "Empty" ->
                render_only_updated(go(s1, cd.pos[1], cd.pos[2]), io)
          [] cd.cell_type = "IndexPanic" ->
                [self |-> s1, res |-> "panic"]

\* rand is consulted only when the head steps onto Food and an Empty cell exists.
TickIndexes(self, key) ==
    LET s1 == KeyTurn(self, key)
    IN  IF collision_detection(s1).cell_type = "Food" /\ Len(empty_cells(s1)) > 0
        THEN FoodIndexes(s1)
        ELSE {0}

\* the tick as it would be if tmp_key were set anew in every loop iteration
PollTick_forgets_key ==
    /\ pc = "poll"
    /\ ticks < MaxTicks
    /\ \E index \in TickIndexes(game, tmp_key),
          io \in (IF ticks < MaxIoFailTick THEN IoOutcomes ELSE {"ok"}) :
          LET r == Tick(game, tmp_key, index, io)
          IN  /\ game' = r.self
              /\ IF r.res = "Ok"
                 THEN pc' = "poll" /\ result' = result
                 ELSE pc' = "returned" /\ result' = r.res
    /\ tmp_key' = InitialKey
    /\ ticks' = ticks + 1
    /\ UNCHANGED raw_mode

\* One loop iteration with no event pending: a tick.
PollTick ==
    /\ pc = "poll"
    /\ ticks < MaxTicks
    /\ \E index \in TickIndexes(game, tmp_key),
          io \in (IF ticks < MaxIoFailTick THEN IoOutcomes ELSE {"ok"}) :
          LET r == Tick(game, tmp_key, index, io)
          IN  /\ game' = r.self
              /\ IF r.res = "Ok"
                 THEN pc' = "poll" /\ result' = result /\ tmp_key' = tmp_key
                 ELSE pc' = "returned" /\ result' = r.res /\ tmp_key' = InitialKey
    /\ ticks' = ticks + 1
    /\ UNCHANGED raw_mode

(* ------------------------------ main ----------------------------------- *)
\* main after run() returned: report, then g goes out of scope (Drop for Game).
MainExit ==
    /\ pc = "returned"
    /\ raw_mode' = [raw_mode EXCEPT !.disabled = @ + 1]
    /\ pc' = "exited"
    /\ UNCHANGED <<game, tmp_key, result, ticks>>

Next == RunBuild \/ RunRenderAll \/ PollEvent \/ PollTick \/ MainExit

Spec == Init /\ [][Next]_vars

(* ======================= properties of the game ======================== *)
Coords == Xs \X Ys
BorderRing == {p \in Coords : p[1] = 0 \/ p[2] = 0 \/ p[1] = Width - 1 \/ p[2] = Height - 1}
TypeAt(self, p) == self.cells[p[1]][p[2]].cell_type
CellsTyped(self, t) == {p \in Coords : TypeAt(self, p) = t}
\* the scene exists: build_default has returned
Built == pc \in {"built", "poll", "returned", "exited"}
\* the step is a tick of the loop
IsTick == pc = "poll" /\ ticks' = ticks + 1
\* what collision_detection finds in the tick taken from the current state
Ahead == collision_detection(KeyTurn(game, tmp_key))
SnackLen(self) == 1 + Len(self.snack.bodys)

\* C1: once build_default has run the cells typed Wall are exactly the border
\* ring, in every state of the session: the whole ring is Wall and no Wall cell
\* is ever retyped by go, eat_food or generage_food.
C1_BorderRingStaysWall ==
    Built => CellsTyped(game, "Wall") = BorderRing

\* C1 witness: a late session in which the head was steered at the wall next
\* to it and the session ended there.
C1_Witness ==
    /\ result = "Err_wall"
    /\ collision_detection(game).pos \in BorderRing

\* C2: at every tick boundary the coordinates of snack.bodys are exactly the
\* cells typed SnackBody and the only cell typed SnackHead is snack.head.
C2_SnackCellsMatch ==
    Built => /\ Range(game.snack.bodys) = CellsTyped(game, "SnackBody")
             /\ CellsTyped(game, "SnackHead") = {game.snack.head}

\* C2 witness: the snake has moved and has eaten since the scene was built.
C2_Witness ==
    /\ pc = "poll"
    /\ ticks >= 2
    /\ game.score = 1
    /\ game.snack.head # NewSnack.head

\* C3: at every tick boundary head and body coordinates are pairwise distinct
\* and none of them is the coordinate of a Wall cell.
C3_SnackDistinctOffWall ==
    Built =>
        LET all == <<game.snack.head>> \o game.snack.bodys
        IN  /\ Cardinality(Range(all)) = Len(all)
            /\ \A i \in 1 .. Len(all) :
                   /\ TypeAt(game, all[i]) # "Wall"
                   /\ all[i] \notin BorderRing

\* C3 witness: the snake was steered into its own body and the tick refused
\* the step.
C3_Witness ==
    /\ result = "Err_self"
    /\ collision_detection(game).pos \in Range(game.snack.bodys)

Axis(d) == IF d \in {"Left", "Right"} THEN "x" ELSE "y"

\* C4: for every heading h the snake takes and every requested heading r,
\* turn_around(r) makes r the heading exactly when r is perpendicular to h,
\* leaves the heading alone when r is h or its opposite, and changes nothing
\* but the heading.
C4_TurnOnlyPerpendicular ==
    pc = "poll" =>
        \A r \in Direction :
            LET h == game.snack.direction
                after == turn_around(game, r)
            IN  /\ after.snack.direction = (IF Axis(r) # Axis(h) THEN r ELSE h)
                /\ after = [game EXCEPT !.snack.direction = after.snack.direction]

\* C4 witness: the snake heads Left, which takes two accepted turns from the
\* initial heading, while a reversal to Right is buffered.
C4_Witness ==
    /\ pc = "poll"
    /\ ticks >= 2
    /\ game.snack.direction = "Left"
    /\ tmp_key.code = "d"

BeforeFood == IF pc = "new" THEN BuildScene(game) ELSE KeyTurn(game, tmp_key)

\* C6: wherever generage_food is called and finds an Empty cell, it succeeds
\* and retypes exactly one cell, which was Empty, is Food afterwards and lies
\* off the border ring; no other cell's type changes.
C6_FoodOnlyOnEmpty ==
    (pc = "new" \/ (pc = "poll" /\ Ahead.cell_type = "Food")) =>
        \A index \in FoodIndexes(BeforeFood) :
            LET r == generage_food(BeforeFood, index)
                retyped == {p \in Coords : TypeAt(r.self, p) # TypeAt(BeforeFood, p)}
            IN  /\ r.res = "Ok"
                /\ Cardinality(retyped) = 1
                /\ \A p \in retyped :
                       /\ TypeAt(BeforeFood, p) = "Empty"
                       /\ TypeAt(r.self, p) = "Food"
                       /\ p \notin BorderRing

\* C6 witness: generage_food has replaced an eaten food and the head is about
\* to step onto the replacement while Empty cells exist.
C6_Witness ==
    /\ pc = "poll"
    /\ ticks >= 1
    /\ ticks < MaxTicks
    /\ game.score = 1
    /\ Ahead.cell_type = "Food"
    /\ FoodIndexes(BeforeFood) # {}

Dirty(self) == {p \in Coords : self.cells[p[1]][p[2]].changed_flag}

\* C7: build_default leaves the food cell dirty; render_all leaves no cell
\* dirty, and render_only_updated right after it draws nothing and changes no
\* cell.
C7_RenderRoundTrip ==
    /\ pc = "built" =>
          LET first == render_all(game, "ok").self
              second == render_only_updated(first, "ok").self
          IN  /\ Dirty(game) = CellsTyped(game, "Food")
              /\ Dirty(first) = {}
              /\ second.writer.drawn = 0
              /\ second.cells = first.cells
    /\ (pc = "poll" /\ game.writer.drawn = Width * Height) =>
          /\ Dirty(game) = {}
          /\ render_only_updated(game, "ok").self.writer.drawn = 0
          /\ render_only_updated(game, "ok").self.cells = game.cells

\* C7 witness: render_all has drawn the frame of a scene with its food and no
\* tick has been taken.
C7_Witness ==
    /\ pc = "poll"
    /\ ticks = 0
    /\ game.writer.drawn = Width * Height
    /\ CellsTyped(game, "Food") # {}

Fatal == {"Err_wall", "Err_self", "Err_nospace"}

\* C8: a tick onto Wall ends the loop with the wall failure, a tick onto
\* SnackBody with the self-collision failure, a tick onto Food with no Empty
\* cell left with the no-space failure; on each of these paths
\* LeaveAlternateScreen has been executed exactly once when the loop has ended
\* and raw mode has been disabled exactly once when the process has ended.
C8_TeardownOnce ==
    /\ [](/\ game.writer.LeaveAlternateScreen <= 1
          /\ raw_mode.disabled <= 1
          /\ (result \in Fatal /\ pc = "returned") =>
                (game.writer.LeaveAlternateScreen = 1 /\ raw_mode.disabled = 0)
          /\ (result \in Fatal /\ pc = "exited") =>
                (game.writer.LeaveAlternateScreen = 1 /\ raw_mode.disabled = 1)
          /\ result \in Fatal => pc \in {"returned", "exited"})
    /\ [][IsTick =>
            /\ Ahead.cell_type = "Wall" => result' = "Err_wall"
            /\ Ahead.cell_type = "SnackBody" => result' = "Err_self"
            /\ (Ahead.cell_type = "Food"
                   /\ CellsTyped(KeyTurn(game, tmp_key), "Empty") = {}) =>
                  result' = "Err_nospace"]_vars

\* C8 witness: the process has ended after a food spawn found no Empty cell.
C8_Witness ==
    /\ pc = "exited"
    /\ result = "Err_nospace"

\* C9 (as claimed): while a steering key is buffered, reading the release of
\* an unrelated key leaves the next tick steering as the buffered key would.
C9_UnrelatedReleaseKeepsDirection ==
    [][(/\ pc = "poll" /\ pc' = "poll" /\ ticks' = ticks
        /\ tmp_key.code \in Steering
        /\ tmp_key'.code \notin Steering) =>
            KeyTurn(game', tmp_key').snack.direction
                = KeyTurn(game, tmp_key).snack.direction]_vars

Opposite(d) ==
    CASE d = "Left" -> "Right" [] d = "Right" -> "Left"
      [] d = "Up" -> "Down" [] d = "Down" -> "Up"

\* the heading of the move that brought the head from the neck to where it is
LastMove(self) ==
    LET h == self.snack.head
        n == self.snack.bodys[1]
    IN  CASE h[1] = n[1] - 1 -> "Left" [] h[1] = n[1] + 1 -> "Right"
          [] h[2] = n[2] - 1 -> "Up" [] OTHER -> "Down"

\* C10: whatever key is buffered when a tick is taken, the coordinate
\* collision_detection computes is not the front of the body, and the heading
\* the tick moves by is not the opposite of the heading of the previous move.
C10_NeverIntoNeck ==
    pc = "poll" =>
        LET turned == KeyTurn(game, tmp_key)
        IN  /\ collision_detection(turned).pos # game.snack.bodys[1]
            /\ turned.snack.direction # Opposite(LastMove(game))

\* C10 witness: after a tick, the key of the opposite heading is buffered.
C10_Witness ==
    /\ pc = "poll"
    /\ ticks >= 1
    /\ game.snack.direction = "Up"
    /\ tmp_key.code = "s"

\* C11: reading an Esc key event, pressed or released, ends the loop with Ok
\* after LeaveAlternateScreen and changes nothing else of the game: heading,
\* head, body, score and every cell's type and changed flag stay as they
\* were; a session that ended with Ok has left the alternate screen once and
\* holds no half-applied tick.
C11_EscQuitsUntouched ==
    /\ pc = "poll" =>
          \A ev \in {e \in Events : e.tag = "Key" /\ e.code = "Esc"} :
              LET r == ReadEvent(game, tmp_key, ev)
              IN  /\ r.res = "Quit"
                  /\ r.self.snack = game.snack
                  /\ r.self.score = game.score
                  /\ r.self.cells = game.cells
                  /\ r.self.writer.LeaveAlternateScreen
                         = game.writer.LeaveAlternateScreen + 1
    /\ result = "Ok" =>
          /\ pc \in {"returned", "exited"}
          /\ game.writer.LeaveAlternateScreen = 1
          /\ Dirty(game) = {}
          /\ Range(game.snack.bodys) = CellsTyped(game, "SnackBody")
          /\ CellsTyped(game, "SnackHead") = {game.snack.head}

\* C11 witness: the player pressed Esc after the snake had turned and moved.
C11_Witness ==
    /\ result = "Ok"
    /\ pc = "returned"
    /\ ticks >= 1
    /\ game.snack.direction # NewSnack.direction
    /\ game.snack.head # NewSnack.head

\* C12 (as claimed): a cell draw or a flush that fails during render_all or
\* render_only_updated is handed back as an error value: the loop has stopped
\* and run has returned the I/O error.
C12_RenderFailuresReturned ==
    game.writer.failed =>
        /\ result = "Err_io"
        /\ pc \in {"returned", "exited"}

\* C13: on the 60x20 grid, the first tick of a new session with no key read
\* since the start, when it is a normal move, puts the head on (10,7), makes
\* (9,7) the front of the body and a SnackBody cell, removes (8,11) from the
\* body and retypes it Empty, and leaves the score 0 and the heading Right.
C13_FirstTick ==
    [][(/\ IsTick
        /\ ticks = 0
        /\ game.snack = NewSnack
        /\ game.score = 0
        /\ tmp_key = InitialKey
        /\ Ahead.cell_type = "Empty") =>
            /\ Width = 60 /\ Height = 20
            /\ game'.snack.head = <<10, 7>>
            /\ TypeAt(game', <<10, 7>>) = "SnackHead"
            /\ Head(game'.snack.bodys) = <<9, 7>>
            /\ TypeAt(game', <<9, 7>>) = "SnackBody"
            /\ <<8, 11>> \notin Range(game'.snack.bodys)
            /\ TypeAt(game', <<8, 11>>) = "Empty"
            /\ Len(game'.snack.bodys) = Len(NewSnack.bodys)
            /\ game'.score = 0
            /\ game'.snack.direction = "Right"]_vars

\* C13 witness: a new session after its first tick, a normal move to the right.
C13_Witness ==
    /\ pc = "poll"
    /\ ticks = 1
    /\ game.score = 0
    /\ game.snack.head = <<10, 7>>
    /\ Len(game.snack.bodys) = Len(NewSnack.bodys)

\* C14: a tick whose next coordinate is a SnackBody cell, the current tail
\* cell included, ends the session with the self-collision failure, and head,
\* body, score and the type of every cell are after the tick what they were
\* before it.
C14_BodyStepRefused ==
    [][(IsTick /\ (\/ Ahead.cell_type = "SnackBody"
                   \/ Ahead.pos = game.snack.bodys[Len(game.snack.bodys)])) =>
            /\ result' = "Err_self"
            /\ pc' = "returned"
            /\ game'.snack.head = game.snack.head
            /\ game'.snack.bodys = game.snack.bodys
            /\ game'.score = game.score
            /\ \A p \in Coords : TypeAt(game', p) = TypeAt(game, p)]_vars

\* C14 witness: the head was steered onto the cell of the tail and the
\* session ended there with the snake where it was.
C14_Witness ==
    /\ result = "Err_self"
    /\ collision_detection(game).pos = game.snack.bodys[Len(game.snack.bodys)]
    /\ TypeAt(game, game.snack.bodys[Len(game.snack.bodys)]) = "SnackBody"

\* C15: a tick onto Food spawns the replacement food before the head
\* advances.  With no Empty cell the session ends with the no-space failure
\* and head, body, score and the type of every cell are what they were, the
\* food uneaten.  With an Empty cell the one Food cell after the tick was
\* Empty before it, is not the eaten cell and is no cell of the snake, and no
\* cell has become Empty.
C15_FoodBeforeAdvance ==
    [][(IsTick /\ Ahead.cell_type = "Food") =>
          LET turned == KeyTurn(game, tmp_key)
              snake == {game'.snack.head} \cup Range(game'.snack.bodys)
          IN  /\ CellsTyped(turned, "Empty") = {} =>
                    /\ result' = "Err_nospace"
                    /\ pc' = "returned"
                    /\ game'.snack.head = game.snack.head
                    /\ game'.snack.bodys = game.snack.bodys
                    /\ game'.score = game.score
                    /\ \A p \in Coords : TypeAt(game', p) = TypeAt(game, p)
              /\ CellsTyped(turned, "Empty") # {} =>
                    /\ result' # "Err_nospace"
                    /\ game'.snack.head = Ahead.pos
                    /\ Cardinality(CellsTyped(game', "Food")) = 1
                    /\ CellsTyped(game', "Food") \subseteq CellsTyped(game, "Empty")
                    /\ Ahead.pos \notin CellsTyped(game', "Food")
                    /\ CellsTyped(game', "Food") \cap snake = {}
                    /\ CellsTyped(game', "Empty") \subseteq CellsTyped(game, "Empty")
      ]_vars

\* C15 witness: after a growth move that took the last Empty cell for the
\* replacement food, the head was steered onto that food; the session ended
\* with the food still in front of the head.
C15_Witness ==
    /\ result = "Err_nospace"
    /\ ticks >= 2
    /\ TypeAt(game, collision_detection(game).pos) = "Food"
    /\ CellsTyped(game, "Empty") = {}

\* C16: whenever a tick can be taken, the next coordinate is not the head's
\* and the head cell is the only cell typed SnackHead, so collision_detection
\* does not return SnackHead and the empty match arm is not taken; every tick
\* either ends the session or moves the head to the next coordinate.
C16_NoOpArmDead ==
    /\ [](pc = "poll" =>
            /\ Ahead.pos # game.snack.head
            /\ CellsTyped(game, "SnackHead") = {game.snack.head}
            /\ Ahead.cell_type # "SnackHead")
    /\ [][IsTick =>
            \/ pc' = "returned" /\ result' # "running"
            \/ /\ pc' = "poll"
               /\ game'.snack.head = Ahead.pos
               /\ game'.snack.head # game.snack.head]_vars

\* C16 witness: a new session two moves after its start, the old head cell
\* now second in the body.
C16_Witness ==
    /\ pc = "poll"
    /\ ticks = 2
    /\ Len(game.snack.bodys) >= 2
    /\ game.snack.bodys[2] = NewSnack.head
    /\ TypeAt(game, NewSnack.head) = "SnackBody"

\* C17: in every state of a built session the head lies in the strict
\* interior, 1 <= x <= Width - 2 and 1 <= y <= Height - 2; so whatever the
\* heading, the coordinate collision_detection computes is one step from the
\* head and inside the grid: the lookup is never out of bounds and the branch
\* for a negative coordinate is not taken.
C17_HeadInStrictInterior ==
    Built =>
        /\ game.snack.head[1] \in 1 .. (Width - 2)
        /\ game.snack.head[2] \in 1 .. (Height - 2)
        /\ \A d \in Direction :
               LET cd == collision_detection([game EXCEPT !.snack.direction = d])
               IN  /\ cd.cell_type \in CellType
                   /\ cd.pos \in Coords
                   /\ Abs(cd.pos[1] - game.snack.head[1])
                        + Abs(cd.pos[2] - game.snack.head[2]) = 1

\* C17 witness: the head has moved into the corner of the interior, the wall
\* in front of it and beside it.
C17_Witness ==
    /\ pc = "poll"
    /\ ticks >= 1
    /\ game.snack.head = <<Width - 2, Height - 2>>
    /\ Ahead.cell_type = "Wall"
    /\ Ahead.pos \in BorderRing

\* the cells whose type is not what the screen shows for them
Stale(self) ==
    {p \in Coords :
        self.writer.screen[p[1]][p[2]] # cell_style_content(TypeAt(self, p))}

\* C18: Cell::render prints something different for every cell type; after
\* render_all and after the render_only_updated of every tick no cell has its
\* changed flag set and every cell shows on the screen what is printed for its
\* current type; and in the tick taken next, when go or eat_food has run and
\* the render pass has not, every cell that no longer shows its type has its
\* changed flag set.
C18_ScreenTracksGrid ==
    [](/\ \A t, u \in CellType :
              cell_style_content(t) = cell_style_content(u) => t = u
       /\ pc = "poll" =>
             /\ Dirty(game) = {}
             /\ Stale(game) = {}
             /\ LET turned == KeyTurn(game, tmp_key)
                IN  /\ Ahead.cell_type = "Empty" =>
                          LET moved == go(turned, Ahead.pos[1], Ahead.pos[2])
                          IN  /\ Stale(moved) # {}
                              /\ Stale(moved) \subseteq Dirty(moved)
                    /\ Ahead.cell_type = "Food" =>
                          \A index \in TickIndexes(game, tmp_key) :
                              LET r == eat_food(turned, Ahead.pos[1],
                                                Ahead.pos[2], index)
                              IN  r.res = "Ok" =>
                                     /\ Stale(r.self) # {}
                                     /\ Stale(r.self) \subseteq Dirty(r.self))

\* C18 witness: a growth move has been drawn: three cells in the pass, the
\* head where the food was.
C18_Witness ==
    /\ pc = "poll"
    /\ ticks >= 1
    /\ game.score = 1
    /\ game.writer.drawn = 3
    /\ game.writer.screen[game.snack.head[1]][game.snack.head[2]] = "hash_green"
    /\ Cardinality(CellsTyped(game, "Food")) = 1

\* C19: while the session is running, from build_default on, exactly one cell
\* is typed Food at every tick boundary.
C19_ExactlyOneFood ==
    pc \in {"built", "poll"} => Cardinality(CellsTyped(game, "Food")) = 1

\* C19 witness: a running session in which the first food has been eaten and
\* its replacement lies on the board.
C19_Witness ==
    /\ pc = "poll"
    /\ ticks = MaxTicks
    /\ game.score = 1
    /\ SnackLen(game) = SnackLen(NewGame) + 1
    /\ \E p \in Coords : TypeAt(game, p) = "Food"

\* C20: a tick that leaves the loop running keeps the buffered key and leaves
\* the heading that turning by that key gave; turning by the same key again,
\* as the next tick does when no key release is read in between, gives the
\* same heading.
C20_ReapplyIdempotent ==
    [][(IsTick /\ pc' = "poll") =>
            /\ tmp_key' = tmp_key
            /\ game'.snack.direction = KeyTurn(game, tmp_key).snack.direction
            /\ KeyTurn(game', tmp_key').snack.direction = game'.snack.direction
      ]_vars

\* C20 witness: w was released before the first tick and no key since: the
\* snake has gone up two cells from where it started.
C20_Witness ==
    /\ pc = "poll"
    /\ ticks = 2
    /\ tmp_key.code = "w"
    /\ game.snack.direction = "Up"
    /\ game.snack.head = <<NewSnack.head[1], NewSnack.head[2] - 2>>
====
